---- MODULE Spec2Model ----
(***************************************************************************)
(* Model of GcodeSuite::M199 (Marlin/src/gcode/temperature/M199.cpp):      *)
(* wait for the PINDA bed-level sensor to warm or cool to a target         *)
(* temperature, with an optional timeout.                                  *)
(*                                                                         *)
(* Units.  The millisecond clock millis_t is an unsigned counter that      *)
(* wraps; it is modelled ClockBits wide and counts ticks, TicksPerSecond   *)
(* of them to the second, so 1000UL ms is TicksPerSecond ticks.            *)
(* Temperatures read from the sensor or given with S are floats; they are  *)
(* modelled in half degrees (3 is 1.5 C).  target_temp and the sensor's    *)
(* target setpoint are whole degrees (int16_t).                            *)
(***************************************************************************)
EXTENDS Integers, Sequences, FiniteSets, TLC

\* ---- bounds of the model ----
ClockBits == 3
TicksPerSecond == 1
MaxTimeoutSeconds == 2
MaxAdvance == 2
MaxPasses == 3

ClockMod == 2 ^ ClockBits
ClockValues == 0 .. (ClockMod - 1)

\* S values in half degrees: S1 and S1.5
SValues == {2, 3}
\* sensor readings in half degrees: 0.5 C, 1 C and 1.5 C, that is below,
\* at and above the one target temperature the S values give
Readings == {1, 2, 3}
\* heater target temperatures: off, or some target
HeaterTargets == {0, 1}
\* T values in seconds; NoT stands for "T absent or without a value"
NoT == -1
TValues == {NoT} \cup (0 .. MaxTimeoutSeconds)
\* get_target_extruder_from_command(): -1 on an invalid T index
Extruders == {-1, 0}

VARIABLES
  clock,          \* the hardware millisecond counter read by millis()
  dryrun,         \* DEBUGGING(DRYRUN)
  bedTarget,      \* thermalManager.degTargetBed()
  hotendTarget,   \* thermalManager.degTargetHotend(0)
  pindaTarget,    \* the value last given to thermalManager.setTargetPinda
  pc,             \* position of the command: idle, read, yield, rearm, check, exit, done
  cmd,            \* the parameters of the running (or last) M199
  target_temp, is_pinda_cooling, timeout, now, next_serial_status_ms,
  pinda_temp, target_extruder,
  serial,         \* lines written to the serial console by this invocation
  lcd,            \* the LCD status message
  state,          \* None, Running, Completed, TimedOut
  exitPath,       \* how the last invocation returned
  readings,       \* the values degPinda() returned to this invocation, in order
  obs             \* per-invocation counts of the calls made

vars == << clock, dryrun, bedTarget, hotendTarget, pindaTarget, pc, cmd,
           target_temp, is_pinda_cooling, timeout, now, next_serial_status_ms,
           pinda_temp, target_extruder, serial, lcd, state, exitPath,
           readings, obs >>

locals == << target_temp, is_pinda_cooling, timeout, now,
             next_serial_status_ms, pinda_temp, target_extruder >>
ambient == << dryrun, bedTarget, hotendTarget >>

\* ---- helpers ----

\* (int16_t) of a float given in half degrees: truncation toward zero
ToInt16(h) == IF h >= 0 THEN h \div 2 ELSE -((-h) \div 2)

\* parser.value_millis_from_seconds(): seconds to clock ticks
value_millis_from_seconds(sec) == sec * TicksPerSecond

\* 1000UL
ReportInterval == TicksPerSecond

\* unsigned addition of millis_t
AddMillis(a, b) == (a + b) % ClockMod

\* ELAPSED(NOW, SOON): !((signed)(NOW - SOON) < 0) on the wrapping counter
ELAPSED(N, S) == ((N - S + ClockMod) % ClockMod) < (ClockMod \div 2)

\* variant: C takes precedence over W
IsPindaCooling_CoolWins(seenW, seenC, bed, hotend) ==
  seenC \/ (~seenW /\ (bed = 0) /\ (hotend = 0))

\* variant: one heater off is enough to assume cooling
IsPindaCooling_EitherOff(seenW, seenC, bed, hotend) ==
  ~seenW /\ (((bed = 0) \/ (hotend = 0)) \/ seenC)

\* lines 50-52
IsPindaCooling(seenW, seenC, bed, hotend) ==
  ~seenW /\ (((bed = 0) /\ (hotend = 0)) \/ seenC)

\* lines 55-58: the absolute deadline, 0 when T is not given
TimeoutSetup(t, ms) ==
  IF t # NoT THEN AddMillis(ms, value_millis_from_seconds(t)) ELSE 0

\* variant: the deadline is compared even when no timeout was set
TimeoutElapsed_NoGuard(to, n) == ELAPSED(n, to)

\* line 98
TimeoutElapsed(to, n) == (to # 0) /\ ELAPSED(n, to)

\* variant: the two words exchanged
TimeoutWord_Swapped(cooling) == IF cooling THEN "warm-up" ELSE "cool-down"

\* lines 100-105
TimeoutWord(cooling) == IF cooling THEN "cool-down" ELSE "warm-up"

\* line 68
AnnounceWord(cooling) == IF cooling THEN "cool down" ELSE "warm up"

\* variant: a reading equal to the target does not end the wait
KeepWaiting_NotOnEqual(cooling, temp, target) ==
  ((~cooling) /\ (temp <= 2 * target)) \/ (cooling /\ (temp >= 2 * target))

\* variant: the loop condition looks at the warming case only
KeepWaiting_WarmOnly(cooling, temp, target) == temp < 2 * target

\* line 109: the do-while condition; temp in half degrees, target in degrees
KeepWaiting(cooling, temp, target) ==
  ((~cooling) /\ (temp < 2 * target)) \/ (cooling /\ (temp > 2 * target))

\* line 89
StatusMessage(cooling, temp, target) ==
  [ msg |-> IF cooling THEN "P:%i/%i Cooling..." ELSE "P:%i/%i Heating...",
    cur |-> ToInt16(temp), tgt |-> target ]

\* ui.reset_status(): the default status message
DefaultStatus == [ msg |-> "", cur |-> 0, tgt |-> 0 ]

Line(text, word, val) == [ text |-> text, word |-> word, val |-> val ]

\* E is what get_target_extruder_from_command() makes of the command
NoCmd == [ S |-> FALSE, W |-> FALSE, C |-> FALSE, T |-> NoT, E |-> 0 ]

\* elapsed: ticks since entry; lastReport: elapsed when the last report was
\* written; exitCalls: the calls made after the loop, in order
ZeroObs == [ yields |-> 0, rearms |-> 0, reports |-> 0, resets |-> 0,
             writes |-> 0, preCommit |-> 0, elapsed |-> 0, lastReport |-> 0,
             exitCalls |-> << >> ]

\* variant: the first report is due at once
FirstReportTime_Now(n) == n

\* line 75
FirstReportTime(n) == AddMillis(n, ReportInterval)

\* variant: the next report is scheduled from the previous schedule
NextReportTime_FromSchedule(n, scheduled) == AddMillis(scheduled, ReportInterval)

\* line 85
NextReportTime(n, scheduled) == AddMillis(n, ReportInterval)

\* ---- initial state: no command running, sensor setpoint neutral ----
Init ==
  /\ clock \in ClockValues
  /\ dryrun \in BOOLEAN
  /\ bedTarget \in HeaterTargets
  /\ hotendTarget \in HeaterTargets
  /\ pindaTarget = 0
  /\ pc = "idle"
  /\ cmd = NoCmd
  /\ target_temp = 0
  /\ is_pinda_cooling = FALSE
  /\ timeout = 0
  /\ now = 0
  /\ next_serial_status_ms = 0
  /\ pinda_temp = 0
  /\ target_extruder = 0
  /\ serial = << >>
  /\ lcd = DefaultStatus
  /\ state = "None"
  /\ exitPath = "none"
  /\ readings = << >>
  /\ obs = ZeroObs

\* lines 44, 47 and 64: the invocation returns before the loop
EarlyReturn(path) ==
  /\ exitPath' = path
  /\ pc' = "done"
  /\ UNCHANGED << clock, pindaTarget, lcd, locals, serial, state, obs >>

\* lines 48-77 without the return of line 64: the locals, the announcement
\* and the commit of the target
Prepare(s, seenW, seenC, t, ext) ==
  /\ serial' = << Line("Wait for sensor ",
                       AnnounceWord(IsPindaCooling(seenW, seenC, bedTarget, hotendTarget)),
                       ToInt16(s)) >>
  /\ target_temp' = ToInt16(s)
  /\ is_pinda_cooling' = IsPindaCooling(seenW, seenC, bedTarget, hotendTarget)
  /\ timeout' = TimeoutSetup(t, clock)
  /\ target_extruder' = ext
  /\ now' = clock
  /\ next_serial_status_ms' = FirstReportTime(now')
  /\ pinda_temp' = 0
  /\ pindaTarget' = target_temp'
  /\ obs' = [ ZeroObs EXCEPT !.writes = 1, !.preCommit = pindaTarget ]
  /\ UNCHANGED << clock, lcd >>

\* the wait starts: the loop is entered
StartWait(s, seenW, seenC, t, ext) ==
  /\ Prepare(s, seenW, seenC, t, ext)
  /\ state' = "Running"
  /\ exitPath' = "none"
  /\ pc' = "read"

\* variant: no DRYRUN guard
M199Begin_NoDryrunGuard(seenS, s, seenW, seenC, t, ext) ==
  /\ pc = "idle"
  /\ cmd' = [ S |-> seenS, W |-> seenW, C |-> seenC, T |-> t, E |-> ext ]
  /\ UNCHANGED << ambient, readings >>
  /\ IF ~seenS THEN EarlyReturn("noS")
     ELSE IF ext < 0 THEN EarlyReturn("extruder")
     ELSE StartWait(s, seenW, seenC, t, ext)

\* variant: the target extruder is looked at after the target is committed
M199Begin_ExtruderCheckedLate(seenS, s, seenW, seenC, t, ext) ==
  /\ pc = "idle"
  /\ cmd' = [ S |-> seenS, W |-> seenW, C |-> seenC, T |-> t, E |-> ext ]
  /\ UNCHANGED << ambient, readings >>
  /\ IF dryrun THEN EarlyReturn("dryrun")
     ELSE IF ~seenS THEN EarlyReturn("noS")
     ELSE IF ext < 0
       THEN /\ Prepare(s, seenW, seenC, t, ext)
            /\ exitPath' = "extruder" /\ pc' = "done" /\ UNCHANGED state
     ELSE StartWait(s, seenW, seenC, t, ext)

\* variant: lines 111-112 stand after the if of line 47, not inside it
M199Begin_ClearsWithoutS(seenS, s, seenW, seenC, t, ext) ==
  /\ pc = "idle"
  /\ cmd' = [ S |-> seenS, W |-> seenW, C |-> seenC, T |-> t, E |-> ext ]
  /\ UNCHANGED << ambient, readings >>
  /\ IF dryrun THEN EarlyReturn("dryrun")
     ELSE IF ~seenS
       THEN /\ lcd' = DefaultStatus
            /\ pindaTarget' = 0
            /\ obs' = [ obs EXCEPT !.resets = @ + 1, !.writes = @ + 1 ]
            /\ exitPath' = "noS" /\ pc' = "done"
            /\ UNCHANGED << clock, locals, serial, state >>
     ELSE IF ext < 0 THEN EarlyReturn("extruder")
     ELSE StartWait(s, seenW, seenC, t, ext)

\* lines 43-77: M199 up to the first pass of the loop.
\* s: the S value (half degrees), t: the T value (seconds) or NoT,
\* ext: the result of get_target_extruder_from_command().
\* No idle() lies between the millis() of line 57 and that of line 74: both
\* read the same tick.
M199Begin(seenS, s, seenW, seenC, t, ext) ==
  /\ pc = "idle"
  /\ cmd' = [ S |-> seenS, W |-> seenW, C |-> seenC, T |-> t, E |-> ext ]
  /\ UNCHANGED << ambient, readings >>
  /\ IF dryrun THEN EarlyReturn("dryrun")
     ELSE IF ~seenS THEN EarlyReturn("noS")
     ELSE IF ext < 0 THEN EarlyReturn("extruder")
     ELSE StartWait(s, seenW, seenC, t, ext)

\* lines 80-91: sample the sensor, report when the report time has come
SampleAndReport(r) ==
  /\ pc = "read"
  /\ Len(readings) < MaxPasses
  /\ pinda_temp' = r
  /\ readings' = Append(readings, r)
  /\ IF ELAPSED(now, next_serial_status_ms)
       THEN /\ next_serial_status_ms' = NextReportTime(now, next_serial_status_ms)
            /\ serial' = Append(serial, Line("status", "", target_extruder))
            /\ lcd' = StatusMessage(is_pinda_cooling, r, target_temp)
            /\ obs' = [ obs EXCEPT !.reports = @ + 1,
                                   !.lastReport = obs.elapsed ]
       ELSE UNCHANGED << next_serial_status_ms, serial, lcd, obs >>
  /\ UNCHANGED << clock, ambient, pindaTarget, cmd, target_temp,
                  is_pinda_cooling, timeout, now, target_extruder, exitPath >>

\* variant: a pass that reports goes straight to the end of the pass
ReadAndReport_ReportSkipsYield(r) ==
  /\ SampleAndReport(r)
  /\ pc' = IF ELAPSED(now, next_serial_status_ms) THEN "check" ELSE "yield"
  /\ UNCHANGED state

\* variant: a reading that is already at the target leaves the loop at once
ReadAndReport_EarlyBreak(r) ==
  /\ SampleAndReport(r)
  /\ IF KeepWaiting(is_pinda_cooling, r, target_temp)
       THEN pc' = "yield" /\ UNCHANGED state
       ELSE pc' = "exit" /\ state' = "Completed"

\* lines 79-92: the first half of a pass, up to the call of idle()
ReadAndReport(r) ==
  /\ SampleAndReport(r)
  /\ pc' = "yield"
  /\ UNCHANGED state

\* variant: the pass goes from idle() straight to the clock, without the
\* re-arm
Idle_SkipsRearm(adv, bed, hotend) ==
  /\ pc = "yield"
  /\ clock' = AddMillis(clock, adv)
  /\ bedTarget' = bed
  /\ hotendTarget' = hotend
  /\ obs' = [ obs EXCEPT !.yields = @ + 1, !.elapsed = @ + adv ]
  /\ pc' = "check"
  /\ UNCHANGED << dryrun, pindaTarget, cmd, locals, serial, lcd, state,
                  exitPath, readings >>

\* line 93: idle(); time passes and the heater targets may be changed
Idle(adv, bed, hotend) ==
  /\ pc = "yield"
  /\ clock' = AddMillis(clock, adv)
  /\ bedTarget' = bed
  /\ hotendTarget' = hotend
  /\ obs' = [ obs EXCEPT !.yields = @ + 1, !.elapsed = @ + adv ]
  /\ pc' = "rearm"
  /\ UNCHANGED << dryrun, pindaTarget, cmd, locals, serial, lcd, state,
                  exitPath, readings >>

\* line 94: reset_stepper_timeout()
ResetStepperTimeout ==
  /\ pc = "rearm"
  /\ obs' = [ obs EXCEPT !.rearms = @ + 1 ]
  /\ pc' = "check"
  /\ UNCHANGED << clock, ambient, pindaTarget, cmd, locals, serial, lcd,
                  state, exitPath, readings >>

\* variant: the direction is resolved again on every pass
CheckExit_LiveDirection ==
  LET cooling == IsPindaCooling(cmd.W, cmd.C, bedTarget, hotendTarget) IN
  /\ pc = "check"
  /\ now' = clock
  /\ IF TimeoutElapsed(timeout, now')
       THEN /\ serial' = Append(serial, Line("TIMEOUT on sensor ",
                                             TimeoutWord(cooling), 0))
            /\ state' = "TimedOut"
            /\ pc' = "exit"
       ELSE /\ UNCHANGED serial
            /\ IF KeepWaiting(cooling, pinda_temp, target_temp)
                 THEN pc' = "read" /\ UNCHANGED state
                 ELSE pc' = "exit" /\ state' = "Completed"
  /\ UNCHANGED << clock, ambient, pindaTarget, cmd, target_temp,
                  is_pinda_cooling, timeout, next_serial_status_ms,
                  pinda_temp, target_extruder, lcd, exitPath, readings, obs >>

\* variant: the timeout branch clears the setpoint itself before it breaks
CheckExit_ClearsOnTimeout ==
  /\ pc = "check"
  /\ now' = clock
  /\ IF TimeoutElapsed(timeout, now')
       THEN /\ serial' = Append(serial, Line("TIMEOUT on sensor ",
                                             TimeoutWord(is_pinda_cooling), 0))
            /\ state' = "TimedOut"
            /\ pc' = "exit"
            /\ pindaTarget' = 0
            /\ obs' = [ obs EXCEPT !.writes = @ + 1 ]
       ELSE /\ UNCHANGED << serial, pindaTarget, obs >>
            /\ IF KeepWaiting(is_pinda_cooling, pinda_temp, target_temp)
                 THEN pc' = "read" /\ UNCHANGED state
                 ELSE pc' = "exit" /\ state' = "Completed"
  /\ UNCHANGED << clock, ambient, cmd, target_temp,
                  is_pinda_cooling, timeout, next_serial_status_ms,
                  pinda_temp, target_extruder, lcd, exitPath, readings >>

\* lines 96-109: re-read the clock, the timeout branch, the loop condition
CheckExit ==
  /\ pc = "check"
  /\ now' = clock
  /\ IF TimeoutElapsed(timeout, now')
       THEN /\ serial' = Append(serial, Line("TIMEOUT on sensor ",
                                             TimeoutWord(is_pinda_cooling), 0))
            /\ state' = "TimedOut"
            /\ pc' = "exit"
       ELSE /\ UNCHANGED serial
            /\ IF KeepWaiting(is_pinda_cooling, pinda_temp, target_temp)
                 THEN pc' = "read" /\ UNCHANGED state
                 ELSE pc' = "exit" /\ state' = "Completed"
  /\ UNCHANGED << clock, ambient, pindaTarget, cmd, target_temp,
                  is_pinda_cooling, timeout, next_serial_status_ms,
                  pinda_temp, target_extruder, lcd, exitPath, readings, obs >>

\* variant: the timeout branch returns instead of leaving the loop
Finish_TimeoutReturns ==
  /\ pc = "exit"
  /\ lcd' = IF state = "TimedOut" THEN lcd ELSE DefaultStatus
  /\ pindaTarget' = IF state = "TimedOut" THEN pindaTarget ELSE 0
  /\ obs' = IF state = "TimedOut" THEN obs
            ELSE [ obs EXCEPT !.resets = @ + 1, !.writes = @ + 1,
                     !.exitCalls = << "ui.reset_status", "setTargetPinda" >> ]
  /\ exitPath' = "loop"
  /\ pc' = "done"
  /\ UNCHANGED << clock, ambient, cmd, locals, serial, state, readings >>

\* variant: the LCD status is not reset after the loop
Finish_NoStatusReset ==
  /\ pc = "exit"
  /\ pindaTarget' = 0
  /\ obs' = [ obs EXCEPT !.writes = @ + 1,
                         !.exitCalls = << "setTargetPinda" >> ]
  /\ exitPath' = "loop"
  /\ pc' = "done"
  /\ UNCHANGED << clock, ambient, cmd, locals, serial, lcd, state, readings >>

\* lines 111-112: after the loop
Finish ==
  /\ pc = "exit"
  /\ lcd' = DefaultStatus
  /\ pindaTarget' = 0
  /\ obs' = [ obs EXCEPT !.resets = @ + 1, !.writes = @ + 1,
                         !.exitCalls = << "ui.reset_status", "setTargetPinda" >> ]
  /\ exitPath' = "loop"
  /\ pc' = "done"
  /\ UNCHANGED << clock, ambient, cmd, locals, serial, state, readings >>

\* lines 113-114: M199 has returned; its locals are gone and what it wrote
\* and called is no longer counted.  The setpoint and the LCD message stay.
M199Return ==
  /\ pc = "done"
  /\ pc' = "idle"
  /\ cmd' = NoCmd
  /\ target_temp' = 0 /\ is_pinda_cooling' = FALSE /\ timeout' = 0
  /\ now' = 0 /\ next_serial_status_ms' = 0 /\ pinda_temp' = 0
  /\ target_extruder' = 0
  /\ serial' = << >>
  /\ state' = "None"
  /\ exitPath' = "none"
  /\ readings' = << >>
  /\ obs' = ZeroObs
  /\ UNCHANGED << clock, ambient, pindaTarget, lcd >>

Next ==
  \/ \E seenS \in BOOLEAN, s \in SValues, seenW \in BOOLEAN, seenC \in BOOLEAN,
        t \in TValues, ext \in Extruders :
       M199Begin(seenS, s, seenW, seenC, t, ext)
  \/ \E r \in Readings : ReadAndReport(r)
  \/ \E adv \in 0 .. MaxAdvance, bed \in HeaterTargets, hotend \in HeaterTargets :
       Idle(adv, bed, hotend)
  \/ ResetStepperTimeout
  \/ CheckExit
  \/ Finish
  \/ M199Return

Spec == Init /\ [][Next]_vars

\* M199 is straight-line code on one thread: once it is called, each of its
\* statements is executed, and idle() returns.  Nothing says that another
\* M199 is ever sent.
M199Step ==
  \/ \E r \in Readings : ReadAndReport(r)
  \/ \E adv \in 0 .. MaxAdvance, bed \in HeaterTargets, hotend \in HeaterTargets :
       Idle(adv, bed, hotend)
  \/ ResetStepperTimeout
  \/ CheckExit
  \/ Finish
  \/ M199Return

\* the same program when no command carries a T parameter
BeginNoTimeout ==
  \E seenS \in BOOLEAN, s \in SValues, seenW \in BOOLEAN, seenC \in BOOLEAN,
     ext \in Extruders :
       M199Begin(seenS, s, seenW, seenC, NoT, ext)

NextNoTimeout == BeginNoTimeout \/ M199Step

FairSpecNoTimeout == Init /\ [][NextNoTimeout]_vars /\ WF_vars(M199Step)

TypeOK ==
  /\ clock \in ClockValues
  /\ now \in ClockValues /\ timeout \in ClockValues
  /\ next_serial_status_ms \in ClockValues
  /\ pc \in {"idle", "read", "yield", "rearm", "check", "exit", "done"}
  /\ state \in {"None", "Running", "Completed", "TimedOut"}

\* ---- the properties ----

\* the exit predicate as the specification states it (reading in half degrees)
Reached(cooling, reading, target) ==
  (~cooling /\ reading >= 2 * target) \/ (cooling /\ reading <= 2 * target)

\* index of the first sampled reading that satisfies the exit predicate, or 0
FirstReached ==
  LET hits == { i \in 1 .. Len(readings) :
                  Reached(is_pinda_cooling, readings[i], target_temp) }
  IN  IF hits = {} THEN 0 ELSE CHOOSE i \in hits : \A j \in hits : i <= j

\* the TIMEOUT diagnostics written by this invocation
TimeoutLines == { i \in 1 .. Len(serial) : serial[i].text = "TIMEOUT on sensor " }

Passes == Len(readings)
Started == state # "None"
LoopLeft == pc = "exit" \/ (pc = "done" /\ exitPath = "loop")

\* C1: after a started wait has left its loop and M199 has returned, the
\* PINDA target setpoint is 0, whether the wait Completed or TimedOut; and
\* the setpoint was 0 just before every commit of a new target (no command
\* running means a neutral setpoint).
C1_SetpointNeutralAtExit ==
  /\ (pc = "done" /\ exitPath = "loop") => pindaTarget = 0
  /\ pc = "idle" => pindaTarget = 0
  /\ obs.writes >= 1 => obs.preCommit = 0

C1_Witness ==
  /\ pc = "done" /\ exitPath = "loop" /\ state = "TimedOut"
  /\ target_temp # 0 /\ obs.writes = 2 /\ pindaTarget = 0

\* C2: with T given (one second or more), the loop never goes on to another
\* pass once the re-read clock has reached the entry time plus T.
C2_TimeoutAlwaysFires ==
  (pc = "read" /\ Passes >= 1 /\ cmd.T >= 1)
     => obs.elapsed < value_millis_from_seconds(cmd.T)

\* C3 as stated: with T absent or T0 no wait ever ends TimedOut and no
\* timeout diagnostic is written.
C3_ZeroOrAbsentNeverTimesOut ==
  (Started /\ cmd.T \in {NoT, 0}) => (state # "TimedOut" /\ TimeoutLines = {})

\* C3 amended: with T absent (or without a value) no wait ever ends TimedOut
\* and no timeout diagnostic is written, whatever the clock does.
C3_AbsentNeverTimesOut ==
  (Started /\ cmd.T = NoT) => (state # "TimedOut" /\ TimeoutLines = {})

C3_Witness ==
  /\ state = "Running" /\ cmd.T = NoT /\ pc = "read"
  /\ Passes = MaxPasses /\ obs.elapsed >= 2 * TicksPerSecond

\* C4: whenever W is given the direction is Warming, whatever C and the bed
\* and hotend targets are.
C4_ForceWarmWins ==
  (Started /\ cmd.W) => (~is_pinda_cooling /\ serial[1].word = "warm up")

C4_Witness ==
  /\ state = "Running" /\ Passes = 0 /\ cmd.W /\ cmd.C
  /\ bedTarget = 0 /\ hotendTarget = 0 /\ ~is_pinda_cooling

\* C5: without W, the direction resolved at entry is Cooling exactly when C
\* is given or both the bed target and the hotend target are 0.
C5_CoolingIffForcedOrHeatersOff ==
  (state = "Running" /\ Passes = 0 /\ ~cmd.W)
     => (is_pinda_cooling <=> (cmd.C \/ (bedTarget = 0 /\ hotendTarget = 0)))

C5_Witness ==
  /\ state = "Running" /\ Passes = 0 /\ ~cmd.W /\ ~cmd.C
  /\ bedTarget = 0 /\ hotendTarget = 0 /\ is_pinda_cooling

\* C6: when the loop is left, the number of idle() calls and the number of
\* reset_stepper_timeout() calls both equal the number of passes, whether or
\* not a pass reported and whichever way the loop ended.
C6_OneYieldOneRearmPerPass ==
  LoopLeft => (obs.yields = Passes /\ obs.rearms = Passes)

C6_Witness ==
  /\ pc = "exit" /\ state = "TimedOut" /\ obs.reports >= 1
  /\ Passes >= 2 /\ obs.yields = Passes

\* C7: without a timeout, the loop goes on after every reading that does not
\* satisfy the exit predicate and ends Completed at the first one that does:
\* the number of passes is the index of that reading.
C7_CompletesAtFirstReached ==
  (Started /\ cmd.T = NoT) =>
     /\ pc = "read" => FirstReached = 0
     /\ LoopLeft => (state = "Completed" /\ FirstReached = Passes)

C7_Witness ==
  /\ cmd.T = NoT /\ state = "Completed" /\ ~is_pinda_cooling
  /\ readings = << 1, 1, 3 >> /\ target_temp = 1

\* C8: a wait whose first reading already satisfies the exit predicate and
\* that ends Completed has made exactly one pass, one idle() and one
\* reset_stepper_timeout(); no started wait ends without at least one of each.
C8_FirstPassAlwaysRuns ==
  /\ (state = "Completed" /\ FirstReached = 1)
        => (Passes = 1 /\ obs.yields = 1 /\ obs.rearms = 1)
  /\ state \in {"Completed", "TimedOut"} => (obs.yields >= 1 /\ obs.rearms >= 1)

C8_Witness ==
  /\ state = "Completed" /\ pc = "done" /\ Passes = 1
  /\ readings[1] = 2 * target_temp /\ obs.yields = 1 /\ obs.rearms = 1

\* C9: a wait that ends TimedOut has written exactly one timeout diagnostic,
\* and it names the direction: cool-down for Cooling, warm-up for Warming;
\* a wait that ends Completed has written none.
C9_OneTimeoutLineNamingDirection ==
  /\ state = "TimedOut" =>
        /\ Cardinality(TimeoutLines) = 1
        /\ serial[Len(serial)].text = "TIMEOUT on sensor "
        /\ is_pinda_cooling => serial[Len(serial)].word = "cool-down"
        /\ ~is_pinda_cooling => serial[Len(serial)].word = "warm-up"
  /\ state = "Completed" => TimeoutLines = {}
  /\ state = "Running" => TimeoutLines = {}

C9_Witness ==
  /\ state = "TimedOut" /\ is_pinda_cooling /\ cmd.T = 2
  /\ readings = << 3, 3 >> /\ serial[Len(serial)].word = "cool-down"

\* C10: a timeout diagnostic is written only when the last sampled reading
\* does not satisfy the exit predicate.
C10_TimeoutOnlyIfNotReached ==
  TimeoutLines # {} => ~Reached(is_pinda_cooling, pinda_temp, target_temp)

\* what an M199 can be seen to do: the setpoint, the LCD message, the serial
\* lines, the probe reads and the calls counted in obs
effects == << pindaTarget, lcd, serial, readings, obs, state >>

\* C11: in dry-run mode the invocation returns at once, whatever its
\* parameters: the setpoint, the LCD message, the serial output, the clock,
\* the heater targets and the locals are unchanged and nothing is read or
\* called.
C11_DryRunSkipsEverything ==
  [][ (pc = "idle" /\ dryrun)
        => (pc' = "done" /\ UNCHANGED << effects, clock, ambient, locals >>) ]_vars

C11_Witness ==
  /\ pc = "done" /\ dryrun /\ exitPath = "dryrun"
  /\ cmd.S /\ cmd.W /\ cmd.T = MaxTimeoutSeconds /\ cmd.E = 0
  /\ obs = ZeroObs /\ serial = << >> /\ readings = << >>

\* C12: when the target extruder is not resolved (negative), an invocation
\* with S given and no dry run returns before any effect: no setpoint
\* write, no pass, no announcement, no report, no display reset.
C12_BadExtruderAbortsFirst ==
  [][ (pc = "idle" /\ ~dryrun /\ cmd'.S /\ cmd'.E < 0)
        => (pc' = "done" /\ UNCHANGED effects) ]_vars

C12_Witness ==
  /\ pc = "done" /\ ~dryrun /\ cmd.S /\ cmd.E < 0 /\ exitPath = "extruder"
  /\ obs.writes = 0 /\ serial = << >> /\ readings = << >>

\* C20: when S is absent (or has no value) the invocation does nothing: the setpoint is written neither to a target nor
\* to 0, no pass is made, nothing is announced, reported or reset.
C20_NoSDoesNothing ==
  [][ (pc = "idle" /\ ~cmd'.S /\ pc' # "idle")
        => (pc' = "done" /\ UNCHANGED effects) ]_vars

C20_Witness ==
  /\ pc = "done" /\ ~dryrun /\ ~cmd.S /\ exitPath = "noS"
  /\ cmd.T # NoT /\ cmd.E = 0
  /\ obs.writes = 0 /\ obs.resets = 0 /\ serial = << >> /\ readings = << >>

\* the direction announced at entry (line 68)
EntryCooling == serial[1].word = "cool down"

\* C13: the direction is the one resolved at entry for the whole wait,
\* whatever happens to the bed and hotend targets meanwhile: the loop goes
\* on and ends by it, the LCD progress message is phrased by it and the
\* timeout diagnostic names it.
C13_DirectionFixedAtEntry ==
  Started =>
    /\ is_pinda_cooling <=> EntryCooling
    /\ (pc = "read" /\ Passes >= 1)
          => ~Reached(EntryCooling, pinda_temp, target_temp)
    /\ state = "Completed" => Reached(EntryCooling, pinda_temp, target_temp)
    /\ state = "TimedOut"
          => serial[Len(serial)].word
               = (IF EntryCooling THEN "cool-down" ELSE "warm-up")
    /\ (obs.reports >= 1 /\ pc # "done")
          => lcd.msg = (IF EntryCooling THEN "P:%i/%i Cooling..."
                                        ELSE "P:%i/%i Heating...")

C13_Witness ==
  /\ state = "Running" /\ pc = "read" /\ Passes >= 2
  /\ EntryCooling /\ ~cmd.C /\ ~cmd.W /\ bedTarget # 0
  /\ obs.reports >= 1 /\ lcd.msg = "P:%i/%i Cooling..."

\* a step of the loop that writes a status report
Reports == pc = "read" /\ obs'.reports # obs.reports

\* C14: a pass that reports with sampled time now sets the next report time
\* to now + 1000 ms; it reports once; and the report before it, if any, was
\* written at least 1000 ms of sampled time earlier, so intervals missed in
\* a long pass are not made up for by reports in quick succession.
C14_ReportsRescheduledFromNow ==
  [][ Reports =>
        /\ obs'.reports = obs.reports + 1
        /\ Len(readings') = Len(readings) + 1
        /\ obs'.reports <= Len(readings')
        /\ next_serial_status_ms' = (now + ReportInterval) % ClockMod
        /\ obs.reports >= 1 => obs.elapsed - obs.lastReport >= ReportInterval
    ]_vars

\* the second pass reported after two report intervals had gone by in one
\* idle(); the third pass, no time later, did not report
C14_Witness ==
  /\ pc = "yield" /\ Passes = 3 /\ obs.reports = 1
  /\ obs.lastReport >= 2 * ReportInterval /\ obs.elapsed = obs.lastReport
  /\ next_serial_status_ms = (now + ReportInterval) % ClockMod

\* C15: in a wait the probe reads, the idle() calls and the
\* reset_stepper_timeout() calls alternate in this order: the n-th idle()
\* comes after the n-th read, the n-th re-arm after the n-th idle(), and the
\* next read only after both, so between two consecutive reads there is one
\* idle() followed by one re-arm and no pass reads twice.
C15_YieldThenRearmBetweenReads ==
  Started =>
    /\ obs.rearms <= obs.yields /\ obs.yields <= Passes
    /\ Passes <= obs.rearms + 1
    /\ pc = "read"  => (obs.yields = Passes /\ obs.rearms = Passes)
    /\ pc = "yield" => (obs.yields = Passes - 1 /\ obs.rearms = Passes - 1)
    /\ pc = "rearm" => (obs.yields = Passes /\ obs.rearms = Passes - 1)
    /\ pc = "check" => (obs.yields = Passes /\ obs.rearms = Passes)

C15_Witness ==
  /\ state = "Running" /\ pc = "yield" /\ Passes = 3
  /\ obs.yields = 2 /\ obs.rearms = 2 /\ obs.reports >= 1

InLoop == pc \in {"read", "yield", "rearm", "check", "exit"}

\* C16: a started wait writes the setpoint twice: the requested target
\* before the first pass and 0 after the loop.  From the first read to the
\* end of the loop it has been written once and holds the requested
\* (announced) target; once M199 is through it has been written twice and
\* is 0.
C16_SetpointWrittenTwice ==
  Started =>
    /\ InLoop => /\ obs.writes = 1
                 /\ pindaTarget = target_temp
                 /\ pindaTarget = serial[1].val
    /\ pc = "done" => (obs.writes = 2 /\ pindaTarget = 0)

C16_Witness ==
  /\ state = "Running" /\ pc = "yield" /\ Passes = 3 /\ obs.reports = 2
  /\ obs.writes = 1 /\ pindaTarget = 1 /\ target_temp = 1

Terminal == state \in {"Completed", "TimedOut"}

\* C17: once the loop is left, Completed or TimedOut, the invocation only
\* resets the LCD status once and then clears the setpoint; the state stays
\* what it is and there is no further probe read, idle(), re-arm, status
\* report or serial line until M199 has returned.
C17_TerminalStatesAreFinal ==
  [][ (Terminal /\ pc' # "idle") =>
        /\ state' = state
        /\ readings' = readings /\ serial' = serial
        /\ obs'.yields = obs.yields /\ obs'.rearms = obs.rearms
        /\ obs'.reports = obs.reports
        /\ pc = "exit" /\ pc' = "done"
        /\ obs.resets = 0 /\ obs'.resets = 1
        /\ obs'.exitCalls = << "ui.reset_status", "setTargetPinda" >>
        /\ lcd' = DefaultStatus /\ pindaTarget' = 0
    ]_vars

C17_Witness ==
  /\ pc = "done" /\ state = "Completed" /\ Passes = 3 /\ obs.reports >= 1
  /\ obs.resets = 1 /\ lcd = DefaultStatus /\ pindaTarget = 0
  /\ obs.exitCalls = << "ui.reset_status", "setTargetPinda" >>

\* the periodic status lines written by this invocation
StatusLines == { i \in 1 .. Len(serial) : serial[i].text = "status" }

\* C18: every status report of a wait is written when at least 1000 ms
\* have passed since the loop was entered, and never in the first pass: a
\* wait that ends in its first pass has written no status line.
C18_NoReportInFirstSecond ==
  Started =>
    /\ Cardinality(StatusLines) = obs.reports
    /\ obs.reports >= 1 => (obs.lastReport >= ReportInterval /\ Passes >= 2)
    /\ Passes <= 1 => (obs.reports = 0 /\ StatusLines = {})

C18_Witness ==
  /\ pc = "done" /\ state = "TimedOut" /\ Passes = 1
  /\ obs.elapsed >= ReportInterval /\ obs.reports = 0
  /\ Len(serial) = 2 /\ StatusLines = {}

\* C19: without a timeout the loop ends exactly when a sampled reading
\* satisfies the exit predicate.  As long as none has, the wait is Running,
\* and every pass it starts is carried through its idle() and its re-arm;
\* once one has, the wait ends Completed.  (Passes are counted up to
\* MaxPasses.)
C19_EndsIffReached ==
  /\ []((Started /\ cmd.T = NoT /\ FirstReached = 0) => state = "Running")
  /\ (state = "Running" /\ cmd.T = NoT /\ pc = "read" /\ Passes < MaxPasses)
       ~> (pc \in {"read", "exit"} /\ Passes >= 1
             /\ obs.yields = Passes /\ obs.rearms = Passes)
  /\ (Started /\ cmd.T = NoT /\ FirstReached > 0) ~> (state = "Completed")

C19_Witness ==
  /\ state = "Running" /\ cmd.T = NoT /\ pc = "read" /\ Passes = MaxPasses
  /\ FirstReached = 0 /\ obs.yields = MaxPasses /\ obs.rearms = MaxPasses
  /\ is_pinda_cooling

====
